---- MODULE Spec2Model ----
(***************************************************************************)
(* Verification core of the property finder backend:                       *)
(*   - JobQueue (services/verification/jobs.py): registry, pending queue,  *)
(*     dispatch loop, worker tasks, one asyncio.Lock;                      *)
(*   - the job handler process_verification_jobs (app/main.py) with the    *)
(*     ElevenLabs poller (services/verification/elevenlabs_client.py);     *)
(*   - the Bland AI workflow _verify_property_async                        *)
(*     (services/verification/service.py).                                 *)
(* Tasks are asyncio tasks: a step of the model is the code a task runs    *)
(* up to a point where it can be suspended; the start of a worker is split *)
(* at the assignment of Processing.  A free asyncio.Lock is acquired       *)
(* without suspension, so the end of a handler and the finally block of    *)
(* its worker are one step when the lock is free.                          *)
(* _analyze_transcript (service.py) is a pure function on transcripts,     *)
(* modelled on sequences of words.                                         *)
(***************************************************************************)
EXTENDS Integers, Sequences, FiniteSets, TLC

\* ---------------------------------------------------------------- bounds
MaxJobs == 3
MaxConcurrentBound == 2
MaxPolls == 2
MaxWords == 3
MaxLength == 700

\* ------------------------------------------------------ program constants
\* ElevenLabsClient.wait_for_call_completion polls every 5 seconds.
poll_interval_seconds == 5
\* call_timeout handed to the poller: MaxPolls poll intervals.
max_wait_seconds == MaxPolls * poll_interval_seconds

JobIds == 1..MaxJobs
NoJob == 0

\* JobStatus
QUEUED == "queued"
PROCESSING == "processing"
COMPLETED == "completed"
FAILED == "failed"

\* Property ids of the database: 1 has an agent phone, 2 has none, 3 does
\* not exist.
PropertyIds == {1, 2, 3}
Properties == {1, 2}
agent_phone(p) == IF p = 1 THEN "agent" ELSE "none"

\* crud.get_property_for_verification: a row only when the property exists
\* and agent_phone is not NULL and not ''.
get_property_for_verification(p) ==
    IF p \in Properties /\ agent_phone(p) # "none" THEN p ELSE 0

\* Task id of the dispatch loop in the lock's waiter list.
Dispatcher == 0

VARIABLES
    jobs,            \* JobQueue.jobs: job_id -> VerificationJob
    queue,           \* JobQueue.queue (asyncio.Queue, FIFO)
    max_concurrent,  \* JobQueue.max_concurrent
    active_jobs,     \* JobQueue.active_jobs
    locked,          \* JobQueue.lock is held (by the dispatch loop: a worker
                     \* takes and releases it within one step)
    lock_waiters,    \* tasks suspended in lock.acquire(), FIFO
    worker_task,     \* position of the dispatch loop task (JobQueue.worker_task)
    held_job,        \* local `job` of process_jobs, NoJob when it holds none
    ready,           \* _process_job tasks created and not yet run, in order
    pc,              \* position of each job's _process_job task
    lock_log,        \* kinds of writes to the shared state made so far, each
                     \* with whether the writing task held the lock
    configured,      \* settings.elevenlabs_agent_id and phone number are set
    calls,           \* jobs for which the handler initiated a call
    no_call_id,      \* jobs whose initiation was answered without call_id
    poll_outcome,    \* what wait_for_call_completion did for each job
    verification_logs,    \* latest verification_logs row of each property
    persisted,       \* results each job's handler gave to
                     \* crud.create_verification_log, in order
    verification_status,  \* properties.verification_status and notes
    mode,            \* "test": pytest is loaded; "mock" / "production":
                     \* settings.bland_ai_mock_mode is true / false
    bland_api_key,   \* settings.bland_ai_api_key is set
    wf,              \* position of each property's _verify_property_async task
    wf_elapsed,      \* poll intervals a task has waited
    call_state,      \* provider-side status of each property's call
    placed_calls,    \* make_call invocations: property, phone, client
    fetches,         \* get_call_result requests each property's poller made
    fetch_log,       \* get_call_result requests of each property's poller:
                     \* "none", "error" (one failed), "retried" (a request
                     \* was made after a failed one)
    elevenlabs_api_key,  \* settings.elevenlabs_api_key is set
    response,        \* last answer of POST /api/verify/property/{id}
    returned,        \* last return value of JobQueue.get_job
    job_status,      \* last answer of GET /api/verify/job/{job_id}
    call_transcript, \* argument of _analyze_transcript: words, or None
    listing_type,    \* argument of _analyze_transcript
    classification,  \* its return value, "none" before the call
    matched_tier,    \* classify: the first tier of the table that matches
    transcript_length,  \* classify: len(transcript) in characters
    confidence_score \* classify: the confidence returned, in 1/2000,
                     \* NoScore before the call

handlerVars == <<configured, calls, no_call_id, poll_outcome,
                 verification_logs, persisted, verification_status>>

wfVars == <<mode, bland_api_key, wf, wf_elapsed, call_state, placed_calls,
            fetch_log, fetches>>

endpointVars == <<elevenlabs_api_key, response, returned, job_status>>

classifyVars == <<call_transcript, listing_type, classification,
                  matched_tier, transcript_length, confidence_score>>

queueVars == <<jobs, queue, max_concurrent, active_jobs, locked, lock_waiters,
               worker_task, held_job, ready, pc, lock_log>>

vars == <<queueVars, handlerVars, wfVars, endpointVars, classifyVars>>

\* properties.verification_status and verification_notes before any run.
NotVerified == [status |-> "pending", notes |-> "none"]

NotPolled == [ended |-> "none", value |-> "none", transcript |-> "none"]

\* A VerificationResult is modelled by its verification_status and notes.
NoResult == [verification_status |-> "none", notes |-> "none"]

\* VerificationJob.__init__: datetime fields are modelled by the number of
\* times they were assigned (0 is None).
VerificationJob(property_id) ==
    [property_id |-> property_id, status |-> QUEUED, started_at |-> 0,
     completed_at |-> 0, error |-> "none", result |-> NoResult]

\* Transcripts are texts of words joined by single blanks; Blank is a word
\* of blanks only, so that more than one blank can stand between two words.
\* The words are the ones the keyword and pattern lists of
\* _analyze_transcript can tell apart in transcripts about "yes", "no",
\* "sold", "available" and hedged answers.
Blank == "  "
Vocabulary ==
    {"user:", "tenant", "Yes.", "yep", "no", "No.", "nope", "sold",
     "available", "maybe", "not", "sure", "isn't", "it's", "longer", Blank}
WordSeqs == UNION {[1..n -> Vocabulary] : n \in 0..MaxWords}

\* Optional[str]: None, or a text ("" is the text of no words).
None == [present |-> FALSE, words |-> <<>>]
Text(ws) == [present |-> TRUE, words |-> ws]
TranscriptInputs == {None} \cup {Text(ws) : ws \in WordSeqs}

\* Provider-side call record: status and transcript.
NoCall == [status |-> "none", transcript |-> None]
InProgress == [status |-> "in_progress", transcript |-> None]

\* The endpoint has answered no request yet.
NoResponse == [property_id |-> 0, status_code |-> 0, job_id |-> 0]

\* State of the endpoint and of the classifier's caller outside their own
\* specifications.
\* get_job has not been called; what it returns for an unknown id (None).
NotFound ==
    [property_id |-> 0, status |-> "not-found", started_at |-> 0,
     completed_at |-> 0, error |-> "none", result |-> NoResult]
NoRead == [called |-> FALSE, job_id |-> NoJob, job |-> NotFound]
\* The job-status endpoint has answered no request yet.
NoStatus ==
    [called |-> FALSE, job_id |-> NoJob, status_code |-> 0,
     status |-> "none", result |-> NoResult]

EndpointIdle ==
    /\ elevenlabs_api_key = TRUE
    /\ response = NoResponse
    /\ returned = NoRead
    /\ job_status = NoStatus
NoScore == 0 - 1
ConfidenceIdle ==
    /\ matched_tier = 8
    /\ transcript_length = 0
    /\ confidence_score = NoScore
ClassifierIdle ==
    /\ call_transcript = None
    /\ listing_type = "sale"
    /\ classification = "none"
    /\ ConfidenceIdle

\* State of the Bland AI workflow before any verify_property call.
WorkflowIdle ==
    /\ fetch_log = [p \in Properties |-> "none"]
    /\ fetches = [p \in Properties |-> 0]
    /\ wf = [p \in Properties |-> "idle"]
    /\ wf_elapsed = [p \in Properties |-> 0]
    /\ call_state = [p \in Properties |-> NoCall]
    /\ placed_calls = {}

Init ==
    /\ EndpointIdle
    /\ ClassifierIdle
    /\ mode = "test"
    /\ bland_api_key = FALSE
    /\ WorkflowIdle
    /\ jobs = <<>>
    /\ queue = <<>>
    /\ max_concurrent \in 1..MaxConcurrentBound
    /\ active_jobs = 0
    /\ locked = FALSE
    /\ lock_waiters = <<>>
    /\ worker_task = "none"
    /\ held_job = NoJob
    /\ ready = <<>>
    /\ pc = [j \in JobIds |-> "none"]
    /\ lock_log = {}
    /\ configured \in BOOLEAN
    /\ calls = {}
    /\ no_call_id = {}
    /\ poll_outcome = [j \in JobIds |-> NotPolled]
    /\ verification_logs = [p \in Properties |-> NoResult]
    /\ persisted = [j \in JobIds |-> <<>>]
    /\ verification_status = [p \in Properties |-> NotVerified]

Registered == DOMAIN jobs

\* ------------------------------------------------------------ asyncio.Lock
\* acquire() returns at once when the lock is free and nobody waits.
LockFree == ~locked /\ lock_waiters = <<>>
\* A suspended acquire() resumes when the lock is free and it is the first
\* waiter (release() wakes the first waiter only).
LockGranted(t) == ~locked /\ lock_waiters # <<>> /\ Head(lock_waiters) = t
RemoveWaiter(t) == SelectSeq(lock_waiters, LAMBDA w : w # t)

\* A worker has marked its job Processing and is about to enter the handler
\* in the same run of the event loop: no other task and no caller runs
\* before it has done so.
MidStep == \E j \in JobIds : pc[j] = "handler"

\* A write of the given kind was made, inside or outside `async with
\* self.lock`.
Logged(kind, held) == lock_log \cup {[write |-> kind, locked |-> held]}

\* enqueue that takes the queue's lock before it registers the job.
enqueue_under_lock(p) ==
    /\ ~MidStep
    /\ LockFree
    /\ Len(jobs) < MaxJobs
    /\ jobs' = Append(jobs, [property_id |-> p, status |-> QUEUED,
                             started_at |-> 0, completed_at |-> 0,
                             error |-> "none", result |-> NoResult])
    /\ queue' = Append(queue, Len(jobs) + 1)
    /\ lock_log' = Logged("insert", TRUE)
    /\ UNCHANGED <<wfVars, endpointVars, classifyVars>>
    /\ UNCHANGED <<max_concurrent, active_jobs, locked, lock_waiters,
                   worker_task, held_job, ready, pc, handlerVars>>

\* ------------------------------------------------------- JobQueue.enqueue
enqueue(p) ==
    /\ ~MidStep
    /\ Len(jobs) < MaxJobs
    /\ LET job_id == Len(jobs) + 1 IN
        /\ jobs' = Append(jobs, VerificationJob(p))
        /\ queue' = Append(queue, job_id)
        /\ lock_log' = Logged("insert", FALSE)
    /\ UNCHANGED <<wfVars, endpointVars, classifyVars>>
    /\ UNCHANGED <<max_concurrent, active_jobs, locked, lock_waiters,
                   worker_task, held_job, ready, pc, handlerVars>>

Enqueue == \E p \in Properties : enqueue(p)

\* POST /api/verify/property/{property_id} (app/main.py 495-533): 503
\* without API key, 404 when get_property_for_verification finds no row,
\* otherwise the job is enqueued and 202 answers with its id.
start_property_verification(property_id) ==
    /\ ~MidStep
    /\ IF ~elevenlabs_api_key
       THEN /\ response' = [property_id |-> property_id, status_code |-> 503,
                            job_id |-> 0]
            /\ UNCHANGED <<jobs, queue, lock_log>>
       ELSE IF get_property_for_verification(property_id) = 0
            THEN /\ response' = [property_id |-> property_id,
                                 status_code |-> 404, job_id |-> 0]
                 /\ UNCHANGED <<jobs, queue, lock_log>>
            ELSE /\ Len(jobs) < MaxJobs
                 /\ jobs' = Append(jobs, VerificationJob(property_id))
                 /\ queue' = Append(queue, Len(jobs) + 1)
                 /\ lock_log' = Logged("insert", FALSE)
                 /\ response' = [property_id |-> property_id,
                                 status_code |-> 202, job_id |-> Len(jobs) + 1]
    /\ UNCHANGED <<wfVars, classifyVars, elevenlabs_api_key, returned,
                   job_status>>
    /\ UNCHANGED <<max_concurrent, active_jobs, locked, lock_waiters,
                   worker_task, held_job, ready, pc, handlerVars>>


\* ------------------------------------------- JobQueue.process_jobs (loop)
\* The capacity test off by one.
AtCapacityOffByOne == active_jobs > max_concurrent

\* `while self.active_jobs >= self.max_concurrent`
AtCapacity == active_jobs >= max_concurrent

\* Lines 117-123 once the lock is held: sleep with the lock held while at
\* capacity, otherwise count the job, release the lock and create its task.
Admit(job) ==
    IF AtCapacity
    THEN /\ locked' = TRUE
         /\ worker_task' = "capacity_wait"
         /\ held_job' = job
         /\ UNCHANGED <<active_jobs, ready, pc, lock_log>>
    ELSE /\ active_jobs' = active_jobs + 1
         /\ lock_log' = Logged("increment", TRUE)
         /\ locked' = FALSE
         /\ ready' = Append(ready, job)
         /\ pc' = [pc EXCEPT ![job] = "created"]
         /\ worker_task' = "get"
         /\ held_job' = NoJob

\* queue.get() delivers the oldest pending job; `async with self.lock`
\* follows without a suspension when the lock can be taken.
process_jobs_get ==
    /\ ~MidStep
    /\ worker_task = "get"
    /\ queue # <<>>
    /\ queue' = Tail(queue)
    /\ IF LockFree
       THEN Admit(Head(queue)) /\ UNCHANGED lock_waiters
       ELSE /\ lock_waiters' = Append(lock_waiters, Dispatcher)
            /\ worker_task' = "lock_wait"
            /\ held_job' = Head(queue)
            /\ UNCHANGED <<active_jobs, locked, ready, pc, lock_log>>
    /\ UNCHANGED <<wfVars, endpointVars, classifyVars>>
    /\ UNCHANGED <<jobs, max_concurrent, handlerVars>>

\* The loop resumes in `async with self.lock` (the lock was granted) or
\* after asyncio.sleep(0.1) in the capacity loop (the lock is still held).
process_jobs_resume ==
    /\ ~MidStep
    /\ worker_task \in {"lock_wait", "capacity_wait"}
    /\ worker_task = "lock_wait" => LockGranted(Dispatcher)
    /\ worker_task = "capacity_wait" => ~AtCapacity
    /\ lock_waiters' = RemoveWaiter(Dispatcher)
    /\ Admit(held_job)
    /\ UNCHANGED <<wfVars, endpointVars, classifyVars>>
    /\ UNCHANGED <<jobs, queue, max_concurrent, handlerVars>>

\* ------------------------------------------------- JobQueue._process_job
\* The worker forgets to mark the job Processing.
MarkProcessingForgotten(j) == [jobs EXCEPT ![j].started_at = @ + 1]

\* Lines 140-142 under the lock.
MarkProcessing(j) ==
    [jobs EXCEPT ![j].status = PROCESSING, ![j].started_at = @ + 1]

\* First step of a created task; tasks start in creation order.
process_job_start(j) ==
    /\ ~MidStep
    /\ pc[j] = "created"
    /\ ready # <<>> /\ Head(ready) = j
    /\ ready' = Tail(ready)
    /\ IF LockFree
       THEN /\ jobs' = MarkProcessing(j)
            /\ lock_log' = Logged(PROCESSING, TRUE)
            /\ pc' = [pc EXCEPT ![j] = "handler"]
            /\ UNCHANGED lock_waiters
       ELSE /\ lock_waiters' = Append(lock_waiters, j)
            /\ pc' = [pc EXCEPT ![j] = "start_wait"]
            /\ UNCHANGED <<jobs, lock_log>>
    /\ UNCHANGED <<wfVars, endpointVars, classifyVars>>
    /\ UNCHANGED <<queue, max_concurrent, active_jobs, locked, worker_task,
                   held_job, handlerVars>>

process_job_start_resume(j) ==
    /\ ~MidStep
    /\ pc[j] = "start_wait"
    /\ LockGranted(j)
    /\ lock_waiters' = Tail(lock_waiters)
    /\ jobs' = MarkProcessing(j)
    /\ lock_log' = Logged(PROCESSING, TRUE)
    /\ pc' = [pc EXCEPT ![j] = "handler"]
    /\ UNCHANGED <<wfVars, endpointVars, classifyVars>>
    /\ UNCHANGED <<queue, max_concurrent, active_jobs, locked, worker_task,
                   held_job, ready, handlerVars>>

\* The slot is not given back when the handler raised.
process_job_finally_leaky(j, assigned) ==
    IF LockFree
    THEN /\ jobs' = [assigned EXCEPT ![j].completed_at = @ + 1]
         /\ active_jobs' = IF assigned[j].status = FAILED THEN active_jobs
                           ELSE active_jobs - 1
         /\ lock_log' = Logged(assigned[j].status, FALSE)
                             \cup {[write |-> "decrement", locked |-> TRUE]}
         /\ pc' = [pc EXCEPT ![j] = "done"]
         /\ UNCHANGED lock_waiters
    ELSE /\ jobs' = assigned
         /\ lock_log' = Logged(assigned[j].status, FALSE)
         /\ lock_waiters' = Append(lock_waiters, j)
         /\ pc' = [pc EXCEPT ![j] = "finally_wait"]
         /\ UNCHANGED active_jobs

\* Lines 157-161: the finally block, entered in the step that assigned the
\* terminal status; `assigned` is the registry after that assignment.  With
\* the lock free lines 159-161 run at once, otherwise the task is suspended
\* in acquire().
process_job_finally(j, assigned) ==
    IF LockFree
    THEN /\ jobs' = [assigned EXCEPT ![j].completed_at = @ + 1]
         /\ active_jobs' = active_jobs - 1
         /\ lock_log' = Logged(assigned[j].status, FALSE)
                             \cup {[write |-> "decrement", locked |-> TRUE]}
         /\ pc' = [pc EXCEPT ![j] = "done"]
         /\ UNCHANGED lock_waiters
    ELSE /\ jobs' = assigned
         /\ lock_log' = Logged(assigned[j].status, FALSE)
         /\ lock_waiters' = Append(lock_waiters, j)
         /\ pc' = [pc EXCEPT ![j] = "finally_wait"]
         /\ UNCHANGED active_jobs

\* Lines 148-149: the handler returned.
HandlerReturned(j, result) ==
    process_job_finally(
        j, [jobs EXCEPT ![j].result = result, ![j].status = COMPLETED])

\* The except block forgets to store the exception text.
HandlerRaisedSilently(j, e) ==
    process_job_finally(j, [jobs EXCEPT ![j].status = FAILED])

\* Lines 153-155: the handler raised.
HandlerRaised(j, e) ==
    process_job_finally(
        j, [jobs EXCEPT ![j].error = e, ![j].status = FAILED])

\* Lines 159-161 under the lock.
Finish(j) ==
    /\ jobs' = [jobs EXCEPT ![j].completed_at = @ + 1]
    /\ active_jobs' = active_jobs - 1
    /\ lock_log' = Logged("decrement", TRUE)
    /\ pc' = [pc EXCEPT ![j] = "done"]

process_job_finally_resume(j) ==
    /\ ~MidStep
    /\ pc[j] = "finally_wait"
    /\ LockGranted(j)
    /\ lock_waiters' = Tail(lock_waiters)
    /\ Finish(j)
    /\ UNCHANGED <<wfVars, endpointVars, classifyVars>>
    /\ UNCHANGED <<queue, max_concurrent, locked, worker_task, held_job,
                   ready, handlerVars>>

\* ------------------------------------------------ JobQueue.start / stop
Running == worker_task \in {"get", "lock_wait", "capacity_wait"}

start ==
    /\ ~MidStep
    /\ ~Running
    /\ worker_task' = "get"
    /\ UNCHANGED <<wfVars, endpointVars, classifyVars>>
    /\ UNCHANGED <<jobs, queue, max_concurrent, active_jobs, locked,
                   lock_waiters, held_job, ready, pc, lock_log, handlerVars>>

\* stop() that also cancels the worker tasks in flight.
stop_cascading ==
    /\ ~MidStep
    /\ Running
    /\ worker_task' = "cancelled"
    /\ held_job' = NoJob
    /\ locked' = FALSE
    /\ lock_waiters' = <<>>
    /\ ready' = <<>>
    /\ pc' = [j \in JobIds |->
                 IF pc[j] \in {"none", "done"} THEN pc[j] ELSE "cancelled"]
    /\ UNCHANGED <<wfVars, endpointVars, classifyVars>>
    /\ UNCHANGED <<jobs, queue, max_concurrent, active_jobs, lock_log,
                   handlerVars>>

\* worker_task.cancel(): CancelledError is raised where the loop is
\* suspended; `async with` releases a held lock, a pending acquire() is
\* withdrawn, the local job is dropped, `except Exception` does not catch it.
stop ==
    /\ ~MidStep
    /\ Running
    /\ worker_task' = "cancelled"
    /\ held_job' = NoJob
    /\ locked' = FALSE
    /\ lock_waiters' = RemoveWaiter(Dispatcher)
    /\ UNCHANGED <<wfVars, endpointVars, classifyVars>>
    /\ UNCHANGED <<jobs, queue, max_concurrent, active_jobs, ready, pc,
                   lock_log, handlerVars>>

\* ------------------------- ElevenLabsClient.wait_for_call_completion
\* What one get_call_status request can answer.
ProviderAnswers == {"in_progress", "completed", "failed", "http_error"}
\* Statuses that end the polling loop (elevenlabs_client.py lines 144-149).
ElevenLabsTerminal == {"completed", "failed", "failed_to_connect",
                       "no_answer"}
AnswerSeqs == [1..MaxPolls -> ProviderAnswers]

\* The loop of lines 135-164: answers[i] is the answer to the i-th status
\* request.  The value names how the coroutine ended: it returned a status,
\* re-raised the HTTP error of a request, or raised TimeoutError.
RECURSIVE wait_loop(_, _, _)
wait_loop(answers, elapsed, i) ==
    IF elapsed < max_wait_seconds * 1000
    THEN IF answers[i] = "http_error"
         THEN [ended |-> "raised", value |-> "http_error", fetches |-> i]
         ELSE IF answers[i] \in ElevenLabsTerminal
              THEN [ended |-> "returned", value |-> answers[i],
                    fetches |-> i]
              ELSE wait_loop(answers, elapsed + poll_interval_seconds * 1000,
                             i + 1)
    ELSE [ended |-> "raised", value |-> "timeout", fetches |-> i - 1]

wait_for_call_completion(answers) == wait_loop(answers, 0, 1)

\* Every way the poller can end, over all provider behaviours.
PollOutcomes == {wait_for_call_completion(a) : a \in AnswerSeqs}

\* ------------- PropertyVerificationService.verify_property (not in src)
Transcripts == {"yes", "sold"}
\* Classification of a completed call's transcript.
analyze_transcript(t) == IF t = "yes" THEN "available" ELSE "sold"

\* Stands for an exception that leaves verify_property.
Raises == [verification_status |-> "raise", notes |-> "none"]

\* The result verify_property builds from what the poller did.  A failed call gives a
\* Failed result (test_verify_property_call_failed), a timeout is a
\* business outcome with a note.
verify_property_result(outcome, transcript) ==
    IF outcome.ended = "returned"
    THEN IF outcome.value = "completed"
         THEN [verification_status |-> analyze_transcript(transcript),
               notes |-> "transcript"]
         ELSE [verification_status |-> "failed", notes |-> "call failed"]
    ELSE IF outcome.value = "timeout"
         THEN [verification_status |-> "unclear", notes |-> "call timed out"]
         ELSE Raises

\* str(e) of the exception the poller raises.
ExceptionText(value) ==
    IF value = "timeout" THEN "Call did not complete within max_wait seconds"
    ELSE "HTTPError"

\* ------------------------- process_verification_jobs (app/main.py 97-156)
\* The `except Exception` block of lines 147-156 and then _process_job's.
handler_failed(j, e) ==
    LET p == jobs[j].property_id IN
    /\ verification_status' =
           [verification_status EXCEPT ![p] = [status |-> "failed", notes |-> e]]
    /\ HandlerRaised(j, e)

\* Lines 100-122: configuration and property checks, then verify_property
\* starts and suspends in client.initiate_call.
handler_begin(j) ==
    /\ pc[j] = "handler"
    /\ IF ~configured
       THEN handler_failed(j, "ElevenLabs Agent ID and phone number not configured")
       ELSE IF get_property_for_verification(jobs[j].property_id) = 0
            THEN handler_failed(j, "Property not found or has no agent phone")
            ELSE /\ pc' = [pc EXCEPT ![j] = "initiate"]
                 /\ UNCHANGED <<jobs, verification_status, active_jobs,
                                lock_waiters, lock_log>>
    /\ UNCHANGED <<wfVars, endpointVars, classifyVars>>
    /\ UNCHANGED <<queue, max_concurrent, locked,
                   worker_task, held_job, ready, configured, calls,
                   no_call_id,
                   poll_outcome, verification_logs, persisted>>

\* client.initiate_call answered: a call_id, a body without call_id
\* (ValueError, test_verify_property_no_call_id) or an HTTP error.
handler_initiate(j, answer) ==
    /\ ~MidStep
    /\ pc[j] = "initiate"
    /\ calls' = calls \cup {j}
    /\ no_call_id' = IF answer = "no_call_id" THEN no_call_id \cup {j}
                     ELSE no_call_id
    /\ IF answer = "call_id"
       THEN /\ pc' = [pc EXCEPT ![j] = "poll"]
            /\ UNCHANGED <<jobs, verification_status, active_jobs,
                           lock_waiters, lock_log>>
       ELSE handler_failed(j, IF answer = "no_call_id"
                              THEN "No call_id in response" ELSE "HTTPError")
    /\ UNCHANGED <<wfVars, endpointVars, classifyVars>>
    /\ UNCHANGED <<queue, max_concurrent, locked, worker_task, held_job,
                   ready, configured, poll_outcome, verification_logs,
                   persisted>>

\* The row is inserted once more than the handler asks for.
create_verification_log_twice(j, p, result) ==
    /\ verification_logs' = [verification_logs EXCEPT ![p] = result]
    /\ persisted' = [persisted EXCEPT ![j] = Append(Append(@, result), result)]

\* Lines 125-137: crud.create_verification_log inserts one row.
create_verification_log(j, p, result) ==
    /\ verification_logs' = [verification_logs EXCEPT ![p] = result]
    /\ persisted' = [persisted EXCEPT ![j] = Append(@, result)]

\* wait_for_call_completion ended; lines 124-146 store and return the
\* result.
handler_poll(j, outcome, transcript) ==
    LET result == verify_property_result(outcome, transcript)
        p == jobs[j].property_id
    IN
    /\ ~MidStep
    /\ pc[j] = "poll"
    /\ poll_outcome' = [poll_outcome EXCEPT ![j] =
                            [ended |-> outcome.ended, value |-> outcome.value,
                             transcript |-> IF outcome.value = "completed"
                                            THEN transcript ELSE "none"]]
    /\ IF result = Raises
       THEN handler_failed(j, ExceptionText(outcome.value))
            /\ UNCHANGED <<verification_logs, persisted>>
       ELSE /\ create_verification_log(j, p, result)
            /\ verification_status' =
                   [verification_status EXCEPT ![p] =
                       [status |-> result.verification_status,
                        notes |-> result.notes]]
            /\ HandlerReturned(j, result)
    /\ UNCHANGED <<wfVars, endpointVars, classifyVars>>
    /\ UNCHANGED <<queue, max_concurrent, locked, worker_task, held_job,
                   ready, configured, calls, no_call_id>>

\* ------------------------------------------------ bland_client / service.py
\* settings.bland_ai_mock_phone_number, the test number.
TestPhone == "test"

\* get_bland_client (bland_client.py 194-220): the mock client under
\* pytest, the real client in mock mode and in production.
get_bland_client == IF mode = "test" THEN "MockBlandAIClient" ELSE "BlandAIClient"

\* The number chosen by the operating mode: the agent's in production.
phone_to_call_by_mode(p) ==
    IF mode = "production" THEN agent_phone(p) ELSE TestPhone

\* service.py line 342: the number handed to make_call.
phone_to_call(p) == TestPhone

\* Call records get_call_result can return once the provider ended the
\* call.
FinalCalls ==
    {[status |-> "completed", transcript |-> Text(<<"user:", "Yes.">>)],
     [status |-> "completed", transcript |-> Text(<<"sold">>)],
     [status |-> "failed", transcript |-> None],
     [status |-> "failed", transcript |-> Text(<<"user:", "Yes.">>)],
     [status |-> "error", transcript |-> None]}

\* Transcripts _generate_mock_transcript chooses from: an available, an
\* unavailable and an unsure one.
MockTranscripts ==
    {Text(<<"Yes.", "available">>), Text(<<"No.", "sold">>),
     Text(<<"not", "sure">>)}

\* ------------------------------- _analyze_transcript (service.py 16-161)
\* str.lower() on one word (line 37).
lower(w) == CASE w = "Yes." -> "yes." [] w = "No." -> "no." [] OTHER -> w
lower_transcript(ws) == [i \in 1..Len(ws) |-> lower(ws[i])]

\* The leading \w+ of a lowered word, what the group (\w+) captures.
LeadingWord(w) ==
    CASE w = "user:" -> "user" [] w = "yes." -> "yes" [] w = "no." -> "no"
      [] w = "isn't" -> "isn" [] w = "it's" -> "it" [] OTHER -> w

\* Substring facts between the lowered words and the words of the keywords:
\* w starts with k, w ends with k, k occurs in w.
StartsWith(w, k) ==
    \/ w = k
    \/ <<w, k>> \in {<<"yes.", "yes">>, <<"no.", "no">>, <<"nope", "no">>,
                     <<"not", "no">>, <<"sold", "so">>}
EndsWith(w, k) ==
    \/ w = k
    \/ <<w, k>> \in {<<"maybe", "be">>}
Contains(w, k) == StartsWith(w, k) \/ EndsWith(w, k)

\* First word after position i that is not Blank, 0 when there is none.
RECURSIVE SkipBlanks(_, _)
SkipBlanks(t, i) ==
    IF i > Len(t) THEN 0
    ELSE IF t[i] = Blank THEN SkipBlanks(t, i + 1) ELSE i

\* re.findall of a pattern `head \s* ["']? (\w+)` from word i on: matches do
\* not overlap, a captured word starts no further match.
RECURSIVE findall(_, _, _)
findall(heads, t, i) ==
    IF i > Len(t) THEN <<>>
    ELSE LET j == SkipBlanks(t, i + 1) IN
         IF t[i] \in heads /\ j # 0
         THEN <<LeadingWord(t[j])>> \o findall(heads, t, j + 1)
         ELSE findall(heads, t, i + 1)

\* Lines 43-51: `user:` followed by a word, then one of caller, user,
\* prospect, tenant, buyer followed by a word ("user:" itself does not match
\* the second pattern: a colon follows).  The optional said/responded/replied
\* is left out, the vocabulary has none of these words.
user_statements(t) == findall({"user:"}, t, 1) \o findall({"tenant"}, t, 1)

\* Lines 56-62: the first statement of the no or of the yes family decides.
RECURSIVE short_answer(_)
short_answer(statements) ==
    IF statements = <<>> THEN "none"
    ELSE IF Head(statements) \in {"no", "nope", "nope.", "no."}
         THEN "unavailable"
         ELSE IF Head(statements) \in {"yes", "yes.", "yep", "yep."}
              THEN "available"
              ELSE short_answer(Tail(statements))

\* `keyword in lower_transcript` for a keyword of words k at word i.
KeywordAt(t, i, k) ==
    LET n == Len(k) IN
    /\ i + n - 1 <= Len(t)
    /\ IF n = 1 THEN Contains(t[i], k[1])
       ELSE /\ EndsWith(t[i], k[1])
            /\ StartsWith(t[i + n - 1], k[n])
            /\ \A m \in 2..(n - 1) : t[i + m - 1] = k[m]
KeywordIn(t, keywords) ==
    \E k \in keywords : \E i \in 1..Len(t) : KeywordAt(t, i, k)

\* The list without "sold" and the keywords that contain it.
unavailable_keywords_unsold ==
    {<<"let">>, <<"rented">>, <<"taken">>, <<"no", "longer", "available">>,
     <<"off", "market">>, <<"withdrawn">>, <<"delisted">>,
     <<"no", "longer", "listed">>, <<"already", "rented">>,
     <<"no", "longer", "for", "rent">>, <<"no", "longer", "for", "sale">>,
     <<"no", "longer", "selling">>, <<"been", "let">>, <<"been", "rented">>}

\* Lines 65-82.
unavailable_keywords ==
    {<<"sold">>, <<"let">>, <<"rented">>, <<"taken">>,
     <<"no", "longer", "available">>, <<"off", "market">>, <<"withdrawn">>,
     <<"delisted">>, <<"no", "longer", "listed">>, <<"already", "sold">>,
     <<"already", "rented">>, <<"no", "longer", "for", "rent">>,
     <<"no", "longer", "for", "sale">>, <<"no", "longer", "selling">>,
     <<"been", "let">>, <<"been", "rented">>}

\* Lines 90-108.
available_keywords ==
    {<<"yes">>, <<"available">>, <<"still", "available">>,
     <<"still", "listed">>, <<"still", "on", "market">>,
     <<"on", "the", "market">>, <<"can", "show">>, <<"can", "view">>,
     <<"can", "arrange", "a", "viewing">>, <<"viewing", "available">>,
     <<"listed">>, <<"listing", "is", "active">>, <<"still", "have">>,
     <<"still", "selling">>, <<"haven't", "sold">>,
     <<"actively", "marketing">>, <<"great", "opportunity">>}

\* Lines 116-127.
unsure_keywords ==
    {<<"not", "sure">>, <<"i", "think", "so">>, <<"maybe">>,
     <<"i", "believe", "so">>, <<"might", "be">>, <<"need", "to", "check">>,
     <<"let", "me", "check">>, <<"not", "entirely", "sure">>,
     <<"i'm", "not", "certain">>, <<"can't", "find">>}

\* A pattern (?:a1|a2|..)\s+(?:b1|b2|..): some a ends at a word's end, any
\* number of blanks follows, some b starts at the next word's start.
EndsAt(t, i, a) ==
    LET n == Len(a) IN
    /\ i - n + 1 >= 1
    /\ EndsWith(t[i - n + 1], a[1])
    /\ \A m \in 2..n : t[i - n + m] = a[m]
StartsAt(t, j, b) ==
    LET n == Len(b) IN
    /\ j + n - 1 <= Len(t)
    /\ StartsWith(t[j + n - 1], b[n])
    /\ \A m \in 1..(n - 1) : t[j + m - 1] = b[m]
search(t, pattern) ==
    \E i \in 1..Len(t) :
        LET j == SkipBlanks(t, i + 1) IN
        /\ j # 0
        /\ \E a \in pattern.first : EndsAt(t, i, a)
        /\ \E b \in pattern.second : StartsAt(t, j, b)

\* Lines 137-141.
negation_patterns ==
    {[first |-> {<<"it's", "not">>, <<"isn't">>, <<"not">>},
      second |-> {<<"available">>, <<"listed">>, <<"on", "the", "market">>,
                  <<"for", "sale">>}],
     [first |-> {<<"don't", "have">>, <<"can't", "find">>,
                 <<"couldn't", "locate">>},
      second |-> {<<"that">>, <<"this">>, <<"the", "property">>}],
     [first |-> {<<"no", "longer">>, <<"not", "anymore">>, <<"never">>},
      second |-> {<<"available">>, <<"listed">>, <<"for", "sale">>,
                  <<"for", "rent">>}]}

\* Lines 149-152: the alternatives without \s+ are keywords, the others
\* patterns.
affirmation_keywords ==
    {<<"we", "still", "have">>, <<"we're", "still">>, <<"we", "continue", "to">>}
affirmation_patterns ==
    {[first |-> {<<"currently">>}, second |-> {<<"have">>, <<"list">>}],
     [first |-> {<<"still">>},
      second |-> {<<"available">>, <<"listed">>, <<"on", "market">>}]}

\* The value _analyze_transcript returns is a VerificationStatus (line 18):
\* it carries no confidence.
confidence(status) == "absent"

\* The tiers in another order: the keyword lists before the respondent's
\* short answer.
service_analyze_transcript_keywords_first(text, type) ==
    IF ~text.present \/ text.words = <<>> THEN "unsure"
    ELSE LET t == lower_transcript(text.words)
             answer == short_answer(user_statements(t))
         IN
         IF KeywordIn(t, unavailable_keywords) THEN "unavailable"
         ELSE IF KeywordIn(t, available_keywords) THEN "available"
         ELSE IF answer # "none" THEN answer
         ELSE IF KeywordIn(t, unsure_keywords) THEN "unsure"
         ELSE IF \E q \in negation_patterns : search(t, q) THEN "unavailable"
         ELSE IF \/ KeywordIn(t, affirmation_keywords)
                 \/ \E q \in affirmation_patterns : search(t, q)
              THEN "available"
              ELSE "unsure"

\* _analyze_transcript(transcript, listing_type), lines 33-161;
\* listing_type is not read.
service_analyze_transcript(text, type) ==
    IF ~text.present \/ text.words = <<>> THEN "unsure"
    ELSE LET t == lower_transcript(text.words)
             answer == short_answer(user_statements(t))
         IN
         IF answer # "none" THEN answer
         ELSE IF KeywordIn(t, unavailable_keywords) THEN "unavailable"
         ELSE IF KeywordIn(t, available_keywords) THEN "available"
         ELSE IF KeywordIn(t, unsure_keywords) THEN "unsure"
         ELSE IF \E q \in negation_patterns : search(t, q) THEN "unavailable"
         ELSE IF \/ KeywordIn(t, affirmation_keywords)
                 \/ \E q \in affirmation_patterns : search(t, q)
              THEN "available"
              ELSE "unsure"

\* update_property_verification(property_id, status, timestamp, notes)
update_property_verification(p, status, notes) ==
    verification_status' =
        [verification_status EXCEPT ![p] = [status |-> status, notes |-> notes]]

\* verify_property (service.py 422-448): an unknown property is answered
\* with an error and no task; otherwise the background task is created.
verify_property(p) ==
    /\ p \in Properties
    /\ wf[p] \in {"idle", "done"}
    /\ wf' = [wf EXCEPT ![p] = "created"]
    /\ wf_elapsed' = [wf_elapsed EXCEPT ![p] = 0]
    /\ call_state' = [call_state EXCEPT ![p] = NoCall]
    /\ fetch_log' = [fetch_log EXCEPT ![p] = "none"]
    /\ fetches' = [fetches EXCEPT ![p] = 0]
    /\ UNCHANGED <<mode, bland_api_key, placed_calls>>
    /\ UNCHANGED <<endpointVars, classifyVars>>
    /\ UNCHANGED <<queueVars, handlerVars>>

\* _verify_property_async lines 306-361, up to the first suspension.
\* `answer` is the provider's reply to the request of make_call.
workflow_begin(p, answer) ==
    LET client == get_bland_client
        requested == client = "MockBlandAIClient" \/ bland_api_key
        call_id == requested /\ (client = "MockBlandAIClient" \/ answer = "call_id")
    IN
    /\ wf[p] = "created"
    /\ IF agent_phone(p) = "none"
       THEN /\ update_property_verification(p, "unsure",
                                            "No agent phone number available")
            /\ wf' = [wf EXCEPT ![p] = "done"]
            /\ UNCHANGED <<placed_calls, call_state>>
       ELSE /\ placed_calls' =
                  IF requested
                  THEN placed_calls \cup
                       {[property |-> p, phone |-> phone_to_call(p),
                         client |-> client]}
                  ELSE placed_calls
            /\ IF call_id
               THEN /\ call_state' = [call_state EXCEPT ![p] = InProgress]
                    /\ wf' = [wf EXCEPT ![p] = "polling"]
                    /\ UNCHANGED verification_status
               ELSE /\ update_property_verification(p, "unsure",
                                                    "Failed to initiate call")
                    /\ wf' = [wf EXCEPT ![p] = "done"]
                    /\ UNCHANGED call_state
    /\ UNCHANGED <<mode, bland_api_key, wf_elapsed, fetch_log, fetches>>
    /\ UNCHANGED <<endpointVars, classifyVars>>
    /\ UNCHANGED <<queueVars, configured, calls, no_call_id, poll_outcome,
                   verification_logs, persisted>>

\* The provider ends a call of the real client.
provider_progress(p, final) ==
    /\ get_bland_client = "BlandAIClient"
    /\ call_state[p] = InProgress
    /\ call_state' = [call_state EXCEPT ![p] = final]
    /\ UNCHANGED <<mode, bland_api_key, wf, wf_elapsed, placed_calls,
                   fetch_log, fetches>>
    /\ UNCHANGED <<endpointVars, classifyVars>>
    /\ UNCHANGED <<queueVars, handlerVars>>

\* Lines 373-387: classify the transcript of the returned record and store
\* the status.
workflow_finish(p, record) ==
    LET text == IF record.transcript.present THEN record.transcript
                ELSE Text(<<>>)
    IN
    /\ update_property_verification(
           p, service_analyze_transcript(text, "sale"), "transcript")
    /\ wf' = [wf EXCEPT ![p] = "done"]

\* Lines 363-371: the poller returned None.
workflow_timeout(p) ==
    /\ update_property_verification(p, "unsure", "Call failed or timed out")
    /\ wf' = [wf EXCEPT ![p] = "done"]

\* The loop test lets one more iteration start at the deadline.
BeforeDeadlineOffByOne(p) == wf_elapsed[p] <= MaxPolls

\* `while time.time() - start_time < max_wait_seconds` (service.py 409,
\* mock_client.py 192), time counted in poll intervals.
BeforeDeadline(p) == wf_elapsed[p] < MaxPolls

\* Statuses that end the polling loop (service.py line 412).
BlandTerminal == {"completed", "failed", "error"}

\* The loop returns whatever record a fetch delivers, also one in progress.
workflow_poll_eager(p, fetched) ==
    /\ get_bland_client = "BlandAIClient"
    /\ wf[p] = "polling"
    /\ IF BeforeDeadline(p)
       THEN /\ fetches' = [fetches EXCEPT ![p] = @ + 1]
            /\ fetch_log' = [fetch_log EXCEPT ![p] =
                                 IF @ # "none" THEN "retried"
                                 ELSE IF fetched THEN "none" ELSE "error"]
            /\ IF fetched
               THEN workflow_finish(p, call_state[p]) /\ UNCHANGED wf_elapsed
               ELSE /\ wf_elapsed' = [wf_elapsed EXCEPT ![p] = @ + 1]
                    /\ UNCHANGED <<wf, verification_status>>
       ELSE workflow_timeout(p) /\ UNCHANGED <<wf_elapsed, fetch_log, fetches>>
    /\ UNCHANGED <<mode, bland_api_key, call_state, placed_calls>>
    /\ UNCHANGED <<endpointVars, classifyVars>>
    /\ UNCHANGED <<queueVars, configured, calls, no_call_id, poll_outcome,
                   verification_logs, persisted>>

\* One iteration of _wait_for_call_completion_async (service.py 406-419)
\* with the real client; `fetched` tells whether get_call_result got a
\* record or failed and returned None.
workflow_poll(p, fetched) ==
    /\ get_bland_client = "BlandAIClient"
    /\ wf[p] = "polling"
    /\ IF BeforeDeadline(p)
       THEN /\ fetches' = [fetches EXCEPT ![p] = @ + 1]
            /\ fetch_log' = [fetch_log EXCEPT ![p] =
                                 IF @ # "none" THEN "retried"
                                 ELSE IF fetched THEN "none" ELSE "error"]
            /\ IF /\ fetched
                  /\ call_state[p].status \in BlandTerminal
               THEN workflow_finish(p, call_state[p]) /\ UNCHANGED wf_elapsed
               ELSE /\ wf_elapsed' = [wf_elapsed EXCEPT ![p] = @ + 1]
                    /\ UNCHANGED <<wf, verification_status>>
       ELSE workflow_timeout(p) /\ UNCHANGED <<wf_elapsed, fetch_log, fetches>>
    /\ UNCHANGED <<mode, bland_api_key, call_state, placed_calls>>
    /\ UNCHANGED <<endpointVars, classifyVars>>
    /\ UNCHANGED <<queueVars, configured, calls, no_call_id, poll_outcome,
                   verification_logs, persisted>>

\* One iteration of MockBlandAIClient.wait_for_call_completion_async
\* (mock_client.py 192-223): the simulated duration is at least one poll
\* interval and shorter than max_wait; when it has passed the call is
\* completed with a generated transcript.
workflow_poll_mock(p, passed, generated) ==
    /\ get_bland_client = "MockBlandAIClient"
    /\ wf[p] = "polling"
    /\ IF BeforeDeadline(p)
       THEN IF wf_elapsed[p] >= 1 /\ (passed \/ wf_elapsed[p] = MaxPolls - 1)
            THEN LET record == [status |-> "completed", transcript |-> generated]
                 IN /\ call_state' = [call_state EXCEPT ![p] = record]
                    /\ workflow_finish(p, record)
                    /\ UNCHANGED wf_elapsed
            ELSE /\ wf_elapsed' = [wf_elapsed EXCEPT ![p] = @ + 1]
                 /\ UNCHANGED <<wf, verification_status, call_state>>
       ELSE workflow_timeout(p) /\ UNCHANGED <<wf_elapsed, call_state>>
    /\ UNCHANGED <<mode, bland_api_key, placed_calls, fetch_log, fetches>>
    /\ UNCHANGED <<endpointVars, classifyVars>>
    /\ UNCHANGED <<queueVars, configured, calls, no_call_id, poll_outcome,
                   verification_logs, persisted>>

WorkflowInit ==
    /\ EndpointIdle
    /\ ClassifierIdle
    /\ mode \in {"test", "mock", "production"}
    /\ bland_api_key \in BOOLEAN
    /\ WorkflowIdle
    /\ jobs = <<>>
    /\ queue = <<>>
    /\ max_concurrent = 1
    /\ active_jobs = 0
    /\ locked = FALSE
    /\ lock_waiters = <<>>
    /\ worker_task = "none"
    /\ held_job = NoJob
    /\ ready = <<>>
    /\ pc = [j \in JobIds |-> "none"]
    /\ lock_log = {}
    /\ configured = TRUE
    /\ calls = {}
    /\ no_call_id = {}
    /\ poll_outcome = [j \in JobIds |-> NotPolled]
    /\ verification_logs = [p \in Properties |-> NoResult]
    /\ persisted = [j \in JobIds |-> <<>>]
    /\ verification_status = [p \in Properties |-> NotVerified]

WorkflowNext ==
    \/ \E p \in Properties : verify_property(p)
    \/ \E p \in Properties, a \in {"call_id", "no_call_id", "request_error"} :
           workflow_begin(p, a)
    \/ \E p \in Properties, final \in FinalCalls : provider_progress(p, final)
    \/ \E p \in Properties, fetched \in BOOLEAN : workflow_poll(p, fetched)
    \/ \E p \in Properties, passed \in BOOLEAN, t \in MockTranscripts :
           workflow_poll_mock(p, passed, t)

WorkflowSpec == WorkflowInit /\ [][WorkflowNext]_vars

\* The event loop resumes a poller whose sleep has ended.
Poller(p) ==
    \/ \E fetched \in BOOLEAN : workflow_poll(p, fetched)
    \/ \E passed \in BOOLEAN, t \in MockTranscripts :
           workflow_poll_mock(p, passed, t)

FairWorkflowSpec == WorkflowSpec /\ \A p \in Properties : WF_vars(Poller(p))

\* ------------------------------------------------------------------ Next
\* ------------------------------------ a call of _analyze_transcript
analyze ==
    /\ classification = "none"
    /\ classification' = service_analyze_transcript(call_transcript, listing_type)
    /\ UNCHANGED <<call_transcript, listing_type, endpointVars>>
    /\ UNCHANGED <<matched_tier, transcript_length, confidence_score>>
    /\ UNCHANGED <<queueVars, handlerVars, wfVars>>

ClassifyInit ==
    /\ call_transcript \in TranscriptInputs
    /\ listing_type \in {"rent", "sale"}
    /\ classification = "none"
    /\ ConfidenceIdle
    /\ EndpointIdle
    /\ mode = "test"
    /\ bland_api_key = FALSE
    /\ WorkflowIdle
    /\ jobs = <<>>
    /\ queue = <<>>
    /\ max_concurrent = 1
    /\ active_jobs = 0
    /\ locked = FALSE
    /\ lock_waiters = <<>>
    /\ worker_task = "none"
    /\ held_job = NoJob
    /\ ready = <<>>
    /\ pc = [j \in JobIds |-> "none"]
    /\ lock_log = {}
    /\ configured = TRUE
    /\ calls = {}
    /\ no_call_id = {}
    /\ poll_outcome = [j \in JobIds |-> NotPolled]
    /\ verification_logs = [p \in Properties |-> NoResult]
    /\ persisted = [j \in JobIds |-> <<>>]
    /\ verification_status = [p \in Properties |-> NotVerified]

ClassifySpec == ClassifyInit /\ [][analyze]_vars

\* ---- PropertyVerificationService._analyze_transcript (not in src): the
\* confidence of (status, confidence), by the tier that matched and the
\* length of the transcript, in units of 1/2000.
Min(a, b) == IF a <= b THEN a ELSE b
Tiers == 1..8
ConfidentTiers == {3, 4, 5, 6}
UnsureTiers == {2, 7}

\* The same without the caps of the two length formulas.
classify_confidence_uncapped(tier, len) ==
    CASE tier = 1 -> 1800
      [] tier \in ConfidentTiers -> 1400 + 2 * len
      [] tier \in UnsureTiers -> 600 + len
      [] OTHER -> 600

\* 0.9 for a short answer, min(0.95, 0.7 + len/1000) for the other
\* Available and Unavailable tiers, min(0.6, 0.3 + len/2000) for the Unsure
\* tiers, 0.3 for the fallback.
classify_confidence(tier, len) ==
    CASE tier = 1 -> 1800
      [] tier \in ConfidentTiers -> Min(1900, 1400 + 2 * len)
      [] tier \in UnsureTiers -> Min(1200, 600 + len)
      [] OTHER -> 600

classify ==
    /\ confidence_score = NoScore
    /\ confidence_score' = classify_confidence(matched_tier, transcript_length)
    /\ UNCHANGED <<matched_tier, transcript_length, call_transcript,
                   listing_type, classification>>
    /\ UNCHANGED <<queueVars, handlerVars, wfVars, endpointVars>>

ConfidenceInit ==
    /\ matched_tier \in Tiers
    /\ transcript_length \in 0..MaxLength
    /\ confidence_score = NoScore
    /\ call_transcript = None
    /\ listing_type = "sale"
    /\ classification = "none"
    /\ EndpointIdle
    /\ mode = "test"
    /\ bland_api_key = FALSE
    /\ WorkflowIdle
    /\ jobs = <<>>
    /\ queue = <<>>
    /\ max_concurrent = 1
    /\ active_jobs = 0
    /\ locked = FALSE
    /\ lock_waiters = <<>>
    /\ worker_task = "none"
    /\ held_job = NoJob
    /\ ready = <<>>
    /\ pc = [j \in JobIds |-> "none"]
    /\ lock_log = {}
    /\ configured = TRUE
    /\ calls = {}
    /\ no_call_id = {}
    /\ poll_outcome = [j \in JobIds |-> NotPolled]
    /\ verification_logs = [p \in Properties |-> NoResult]
    /\ persisted = [j \in JobIds |-> <<>>]
    /\ verification_status = [p \in Properties |-> NotVerified]

ConfidenceSpec == ConfidenceInit /\ [][classify]_vars

Dispatch == process_jobs_get \/ process_jobs_resume

Worker(j) ==
    \/ process_job_start(j)
    \/ process_job_start_resume(j)
    \/ handler_begin(j)
    \/ \E a \in {"call_id", "no_call_id", "http_error"} : handler_initiate(j, a)
    \/ \E o \in PollOutcomes, t \in Transcripts : handler_poll(j, o, t)
    \/ process_job_finally_resume(j)

Next ==
    \/ Enqueue
    \/ start
    \/ stop
    \/ process_jobs_get
    \/ process_jobs_resume
    \/ \E j \in JobIds : process_job_start(j)
    \/ \E j \in JobIds : process_job_start_resume(j)
    \/ \E j \in JobIds : handler_begin(j)
    \/ \E j \in JobIds, a \in {"call_id", "no_call_id", "http_error"} :
           handler_initiate(j, a)
    \/ \E j \in JobIds, o \in PollOutcomes, t \in Transcripts :
           handler_poll(j, o, t)
    \/ \E j \in JobIds : process_job_finally_resume(j)


Spec == Init /\ [][Next]_vars

\* The event loop runs every task that can take a step, and a handler's
\* awaits end: weak fairness of the dispatch loop and of every worker task.
\* start, stop and enqueue are calls of the environment and are not forced.
FairSpec ==
    /\ Spec
    /\ WF_vars(Dispatch)
    /\ \A j \in JobIds : WF_vars(Worker(j))

\* ------------------------------------------------------ JobQueue.get_job
\* Ids a caller can ask for: 0 is an id enqueue never returns.
AskedIds == 0..MaxJobs

\* A lookup that registers a job for the next free id, as setdefault would.
get_job_setdefault(job_id) ==
    /\ ~MidStep
    /\ returned' = [called |-> TRUE, job_id |-> job_id,
                    job |-> IF job_id \in DOMAIN jobs THEN jobs[job_id]
                            ELSE NotFound]
    /\ jobs' = IF job_id = Len(jobs) + 1
               THEN Append(jobs, VerificationJob(1)) ELSE jobs
    /\ UNCHANGED <<queue, max_concurrent, active_jobs, locked, lock_waiters,
                   worker_task, held_job, ready, pc, lock_log>>
    /\ UNCHANGED <<handlerVars, wfVars, classifyVars, elevenlabs_api_key,
                   response, job_status>>

\* Line 96: self.jobs.get(job_id); the coroutine has no suspension point.
get_job(job_id) ==
    /\ ~MidStep
    /\ returned' = [called |-> TRUE, job_id |-> job_id,
                    job |-> IF job_id \in DOMAIN jobs THEN jobs[job_id]
                            ELSE NotFound]
    /\ UNCHANGED jobs
    /\ UNCHANGED <<queue, max_concurrent, active_jobs, locked, lock_waiters,
                   worker_task, held_job, ready, pc, lock_log>>
    /\ UNCHANGED <<handlerVars, wfVars, classifyVars, elevenlabs_api_key,
                   response, job_status>>

ReadNext ==
    \/ \E job_id \in AskedIds : get_job(job_id)
    \/ Enqueue
    \/ start
    \/ stop
    \/ Dispatch
    \/ \E j \in JobIds : Worker(j)

ReadSpec == Init /\ [][ReadNext]_vars

\* ------------- get_verification_job_status (app/main.py 536-592)
\* crud.get_verification_log (crud.py 777-817): the latest row of the
\* property, None when it has none.
get_verification_log(property_id) == verification_logs[property_id]

\* GET /api/verify/job/{job_id}: 404 for an unknown id (lines 549-550);
\* otherwise the job's status (553-560) and, for a Completed job, the
\* latest verification log of the job's property (563-584).  The handler
\* has no suspension point between get_job and the answer.
get_verification_job_status(job_id) ==
    /\ ~MidStep
    /\ job_status' =
         IF job_id \notin DOMAIN jobs
         THEN [called |-> TRUE, job_id |-> job_id, status_code |-> 404,
               status |-> "none", result |-> NoResult]
         ELSE LET job == jobs[job_id] IN
              [called |-> TRUE, job_id |-> job_id, status_code |-> 200,
               status |-> job.status,
               result |-> IF job.status = COMPLETED
                          THEN get_verification_log(job.property_id)
                          ELSE NoResult]
    /\ UNCHANGED <<queueVars, handlerVars, wfVars, classifyVars,
                   elevenlabs_api_key, response, returned>>

StatusNext ==
    \/ \E job_id \in AskedIds : get_verification_job_status(job_id)
    \/ Enqueue
    \/ start
    \/ stop
    \/ Dispatch
    \/ \E j \in JobIds : Worker(j)

StatusSpec == Init /\ [][StatusNext]_vars

\* ------------------------------------------- the endpoint and its queue
EndpointInit ==
    /\ elevenlabs_api_key \in BOOLEAN
    /\ response = NoResponse
    /\ returned = NoRead
    /\ job_status = NoStatus
    /\ ClassifierIdle
    /\ mode = "test"
    /\ bland_api_key = FALSE
    /\ WorkflowIdle
    /\ jobs = <<>>
    /\ queue = <<>>
    /\ max_concurrent \in 1..MaxConcurrentBound
    /\ active_jobs = 0
    /\ locked = FALSE
    /\ lock_waiters = <<>>
    /\ worker_task = "none"
    /\ held_job = NoJob
    /\ ready = <<>>
    /\ pc = [j \in JobIds |-> "none"]
    /\ lock_log = {}
    /\ configured = TRUE
    /\ calls = {}
    /\ no_call_id = {}
    /\ poll_outcome = [j \in JobIds |-> NotPolled]
    /\ verification_logs = [p \in Properties |-> NoResult]
    /\ persisted = [j \in JobIds |-> <<>>]
    /\ verification_status = [p \in Properties |-> NotVerified]

EndpointNext ==
    \/ \E p \in PropertyIds : start_property_verification(p)
    \/ start
    \/ stop
    \/ Dispatch
    \/ \E j \in JobIds : Worker(j)

EndpointSpec == EndpointInit /\ [][EndpointNext]_vars

\* ---------------------------------------------------------------- claims
Terminal(j) == j \in DOMAIN jobs /\ jobs[j].status \in {COMPLETED, FAILED}
ProcessingJobs == {j \in DOMAIN jobs : jobs[j].status = PROCESSING}

\* C1: in every reachable state the number of jobs whose status is
\* Processing is at most max_concurrent.
C1_BoundedProcessing == Cardinality(ProcessingJobs) <= max_concurrent

\* The bound is reached while a further job is pending.
C1_Witness ==
    /\ Cardinality(ProcessingJobs) = max_concurrent
    /\ \E j \in DOMAIN jobs : jobs[j].status = QUEUED

\* C3: a job's status only changes Queued -> Processing, Processing ->
\* Completed or Processing -> Failed; a terminal status never changes.
AllowedTransitions ==
    {<<QUEUED, PROCESSING>>, <<PROCESSING, COMPLETED>>, <<PROCESSING, FAILED>>}

C3_MonotonicStatus ==
    [][\A j \in DOMAIN jobs :
          jobs'[j].status # jobs[j].status
              => <<jobs[j].status, jobs'[j].status>> \in AllowedTransitions]_vars

\* One job went through to Completed and another one to Failed.
C3_Witness ==
    \E j, k \in DOMAIN jobs :
        /\ jobs[j].status = COMPLETED /\ jobs[j].started_at = 1
        /\ jobs[k].status = FAILED /\ jobs[k].started_at = 1

\* The dispatch loop was started and is never stopped.
StartedNeverStopped == [](worker_task # "cancelled") /\ <>(worker_task = "get")

\* C2: once the dispatch loop is started and never stopped, every enqueued
\* job eventually reaches Completed or Failed.
C2_AllJobsTerminate ==
    StartedNeverStopped
        => \A j \in JobIds : [](j \in DOMAIN jobs => <>Terminal(j))

\* C4: a job whose handler raised is Failed with the exception text as
\* error, its worker releases its slot, and the queued jobs are still
\* dispatched.
Raised(j) == j \in DOMAIN jobs /\ jobs[j].status = FAILED

C4_FailureIsolated ==
    StartedNeverStopped
        => \A j \in JobIds :
             [](Raised(j)
                  => /\ jobs[j].error # "none"
                     /\ <>(/\ pc[j] = "done"
                           /\ \A k \in DOMAIN jobs : jobs[k].status # QUEUED))

\* C5: a terminal job of a property without agent phone is Completed with
\* an Unclear result, and no call was placed for it.
C5_NoPhoneCompletesUnclear ==
    \A j \in DOMAIN jobs :
        (agent_phone(jobs[j].property_id) = "none" /\ Terminal(j))
            => /\ jobs[j].status = COMPLETED
               /\ jobs[j].result.verification_status = "unclear"
               /\ j \notin calls

\* C6: when the provider reports no terminal status within max_wait the
\* poller returns a timeout value, it does not raise, and the job is
\* Completed with a result whose note mentions the timeout.
C6_TimeoutIsReturned ==
    \A j \in DOMAIN jobs :
        poll_outcome[j].value = "timeout"
            => /\ poll_outcome[j].ended = "returned"
               /\ jobs[j].status = COMPLETED
               /\ jobs[j].result.notes = "call timed out"

\* The number the operating mode requires: the test number in test and
\* mock mode, the agent's number in production.
RequiredPhone(p) == IF mode = "production" THEN agent_phone(p) ELSE TestPhone

\* C7: every call the workflow placed went to the number its operating
\* mode requires.
C7_CallMatchesMode ==
    \A c \in placed_calls : c.phone = RequiredPhone(c.property)

\* C8: stop() changes no worker task and no job, and a job that is
\* Processing while the loop is stopped runs to its end: terminal status,
\* completed_at set, slot released.
StopStep == worker_task # "cancelled" /\ worker_task' = "cancelled"

Finished(j) == Terminal(j) /\ jobs[j].completed_at = 1 /\ pc[j] = "done"

C9_EnqueueNeverBlocks ==
    /\ []((Len(jobs) < MaxJobs /\ ~MidStep)
             => \A p \in Properties : ENABLED enqueue(p))
    /\ [][Len(jobs') # Len(jobs)
            => /\ Len(jobs') = Len(jobs) + 1
               /\ SubSeq(jobs', 1, Len(jobs)) = jobs
               /\ \E p \in Properties :
                     jobs'[Len(jobs')] =
                         [property_id |-> p, status |-> QUEUED,
                          started_at |-> 0, completed_at |-> 0,
                          error |-> "none", result |-> NoResult]
               /\ queue' = Append(queue, Len(jobs'))
               /\ UNCHANGED <<max_concurrent, active_jobs, locked,
                              lock_waiters, worker_task, held_job, ready, pc,
                              handlerVars>>]_vars

\* A fresh job is registered and pending while the dispatch loop waits for
\* capacity with the lock held.
C9_Witness ==
    /\ locked /\ AtCapacity
    /\ jobs # <<>>
    /\ \E p \in Properties : jobs[Len(jobs)] = VerificationJob(p)
    /\ queue # <<>> /\ queue[Len(queue)] = Len(jobs)

\* C10: jobs leave the pending queue and leave Queued in enqueue order
\* (job ids are given in enqueue order).
InQueue(j) == \E i \in 1..Len(queue) : queue[i] = j

C10_FifoAdmission ==
    \A a, b \in DOMAIN jobs :
        a < b => /\ InQueue(a) => InQueue(b)
                 /\ jobs[b].status # QUEUED => jobs[a].status # QUEUED

\* The same while the dispatch loop has never been stopped.
C10_FifoWhileRunning ==
    StartedNeverStopped => []C10_FifoAdmission

\* C11: a failed call placement or a failed status fetch ends the run with
\* status Failed, and no status fetch follows a failed one.
C11_ProviderErrorIsFinal ==
    \A p \in Properties :
        /\ fetch_log[p] # "none"
              => /\ fetch_log[p] = "error"
                 /\ wf[p] = "done"
                 /\ verification_status[p].status = "failed"
        /\ verification_status[p].notes = "Failed to initiate call"
              => verification_status[p].status = "failed"

\* C12: with the service configured, a request is refused if and only if
\* the property does not exist; a refused request registers no job, an
\* accepted one registers one job, Queued, for that property.
C12_FailsIffNotFound ==
    [][(elevenlabs_api_key /\ response' # response)
         => LET p == response'.property_id IN
            IF p \in Properties
            THEN /\ response'.status_code = 202
                 /\ Len(jobs') = Len(jobs) + 1
                 /\ jobs'[Len(jobs')] = VerificationJob(p)
            ELSE /\ response'.status_code # 202
                 /\ UNCHANGED <<jobs, queue>>]_vars

\* C13: completed_at is assigned exactly once, and it is set if and only
\* if the job is Completed or Failed.
C13_CompletedAtIffTerminal ==
    \A j \in DOMAIN jobs :
        /\ jobs[j].completed_at <= 1
        /\ jobs[j].completed_at = 1 <=> Terminal(j)

\* C14: result is set only on Completed jobs, error is set exactly on the
\* Failed ones, and neither changes once the job is terminal.
C14_ResultWrittenOnce ==
    /\ [](\A j \in DOMAIN jobs :
            /\ jobs[j].result # NoResult => jobs[j].status = COMPLETED
            /\ jobs[j].error # "none" <=> jobs[j].status = FAILED)
    /\ [][\A j \in DOMAIN jobs :
            Terminal(j) => /\ jobs'[j].result = jobs[j].result
                           /\ jobs'[j].error = jobs[j].error]_vars

\* One job is Completed with its result and another one Failed with its
\* error, both through their finally block.
C14_Witness ==
    \E j, k \in DOMAIN jobs :
        /\ jobs[j].status = COMPLETED /\ jobs[j].result # NoResult
        /\ jobs[k].status = FAILED /\ jobs[k].error # "none"
        /\ pc[j] = "done" /\ pc[k] = "done"

\* The classifier has been called on a text; its lowered words.
Classified == classification # "none" /\ call_transcript.present
Words == lower_transcript(call_transcript.words)
NoShortAnswer == short_answer(user_statements(Words)) = "none"

\* The uncertainty phrases the classification table names.
UncertaintyPhrases ==
    {<<"maybe">>, <<"not", "sure">>, <<"might", "be">>, <<"i", "think">>}

\* C15: a transcript with an uncertainty phrase and "available" and no
\* short respondent answer is classified Unsure.
C15_UncertaintyFirst ==
    (/\ Classified
     /\ NoShortAnswer
     /\ KeywordIn(Words, UncertaintyPhrases)
     /\ KeywordIn(Words, {<<"available">>}))
        => classification = "unsure"

C17_ShortAnswerDecides ==
    Classified
        => \A w \in Vocabulary :
              call_transcript.words \in {<<w>>, <<"user:", w>>}
                  => /\ LeadingWord(lower(w)) \in {"yes", "yep"}
                          => classification = "available"
                     /\ LeadingWord(lower(w)) \in {"no", "nope"}
                          => classification = "unavailable"

\* C18: when the record polling returned has a failed status the stored
\* result is Failed, whatever its transcript.
C18_FailedCallBypassesClassifier ==
    \A p \in Properties :
        (/\ wf[p] = "done"
         /\ verification_status[p].notes = "transcript"
         /\ call_state[p].status \in {"failed", "error"})
            => verification_status[p].status = "failed"

\* No tier of the classifier matches the words t.
NoTierMatches(t) ==
    /\ short_answer(user_statements(t)) = "none"
    /\ ~KeywordIn(t, unavailable_keywords \cup available_keywords
                       \cup unsure_keywords \cup affirmation_keywords)
    /\ \A q \in negation_patterns \cup affirmation_patterns : ~search(t, q)

\* Confidences below 0.5, in tenths.
LowConfidence == {"0.0", "0.1", "0.2", "0.3", "0.4"}

\* C19: an empty, missing or blank transcript and every transcript no tier
\* matches is classified Unsure with a confidence below 0.5.
C19_FallbackIsUnsure ==
    (classification # "none"
       /\ (~call_transcript.present \/ NoTierMatches(Words)))
        => /\ classification = "unsure"
           /\ confidence(classification) \in LowConfidence

\* C20: a transcript with a negated availability phrase, no short
\* respondent answer and no uncertainty phrase is classified Unavailable.
C20_NegationBeatsAvailable ==
    (/\ Classified
     /\ NoShortAnswer
     /\ ~KeywordIn(Words, UncertaintyPhrases)
     /\ \E q \in negation_patterns : search(Words, q))
        => classification = "unavailable"

C23_GetJobReadOnly ==
    [][returned' # returned
         => /\ UNCHANGED <<queueVars, handlerVars>>
            /\ returned'.called
            /\ returned'.job = NotFound <=> returned'.job_id \notin DOMAIN jobs
            /\ returned'.job_id \in DOMAIN jobs'
                  => returned'.job = jobs'[returned'.job_id]]_vars

\* get_job returned a registered job while it is Processing.
C23_Witness ==
    /\ returned.called
    /\ returned.job_id \in DOMAIN jobs
    /\ returned.job = jobs[returned.job_id]
    /\ returned.job.status = PROCESSING

\* C24: every change of a job's status, every insertion into the registry
\* and every increment or decrement of active_jobs is made by a task that
\* holds the queue's lock.
C24_AllWritesUnderLock == \A w \in lock_log : w.locked

\* The writes that are made with the lock held: Queued -> Processing and
\* the two updates of the counter.
C24_LockedWrites ==
    \A w \in lock_log :
        w.locked <=> w.write \in {PROCESSING, "increment", "decrement"}

\* The poller of property p has returned a record / the timeout signal.
ReturnedRecord(p) ==
    wf[p] = "done" /\ verification_status[p].notes = "transcript"
ReturnedTimeout(p) ==
    wf[p] = "done"
        /\ verification_status[p].notes = "Call failed or timed out"

\* C25 as stated: a returned record has a terminal status, and the timeout
\* signal is returned only if the call had no terminal status at any time
\* before max_wait elapsed.
C25_TimeoutIffNeverTerminal ==
    /\ [](\A p \in Properties :
            ReturnedRecord(p) => call_state[p].status \in BlandTerminal)
    /\ [][\A p \in Properties :
            (wf[p] = "polling" /\ ReturnedTimeout(p)')
                => call_state[p].status \notin BlandTerminal]_vars

\* C25 as amended: a returned record has a terminal status and is returned
\* before max_wait has elapsed, and the timeout signal is returned only
\* when max_wait has elapsed and no status fetch before it delivered a
\* record with a terminal status.
C25_TimeoutIffNoTerminalFetch ==
    /\ [](\A p \in Properties :
            /\ ReturnedRecord(p) => /\ call_state[p].status \in BlandTerminal
                                    /\ wf_elapsed[p] < MaxPolls
            /\ ReturnedTimeout(p) => wf_elapsed[p] = MaxPolls)
    /\ [][\A p \in Properties :
            (wf[p] = "polling" /\ wf_elapsed'[p] # wf_elapsed[p])
                => \/ call_state[p].status \notin BlandTerminal
                   \/ fetch_log'[p] # "none"]_vars

\* The timeout signal for a call that is still in progress after max_wait.
C25_Witness ==
    \E p \in Properties :
        /\ ReturnedTimeout(p)
        /\ call_state[p].status = "in_progress"
        /\ wf_elapsed[p] = MaxPolls

\* C26: the poller always terminates: it makes at most
\* ceil(max_wait / poll_interval) status fetches and then returns a record,
\* the timeout signal or an error, whatever the provider answers.
C26_PollerTerminates ==
    /\ \A p \in Properties : (wf[p] = "polling") ~> (wf[p] = "done")
    /\ [](\A p \in Properties : fetches[p] <= MaxPolls)
    /\ [](\A o \in PollOutcomes :
             /\ o.fetches >= 1
             /\ (o.fetches - 1) * poll_interval_seconds < max_wait_seconds
             /\ o.ended \in {"returned", "raised"})

\* The poller has made every fetch the deadline allows, the provider
\* answered errors, and the poller ended with the timeout signal.
C26_Witness ==
    \E p \in Properties :
        /\ ReturnedTimeout(p)
        /\ fetches[p] = MaxPolls
        /\ fetch_log[p] = "retried"

\* C27: when call initiation yields no call_id the result recorded is
\* Unclear with a note, no status poll and no classification are made, and
\* the job is Completed, not Failed.
C27_NoCallIdCompletesUnclear ==
    \A j \in DOMAIN jobs :
        j \in no_call_id
            => /\ jobs[j].status = COMPLETED
               /\ jobs[j].result.verification_status = "unclear"
               /\ jobs[j].result.notes # "none"
               /\ poll_outcome[j] = NotPolled

\* The first short yes/no answer on a "user:" line, "none" without one.
UserLineAnswer == short_answer(findall({"user:"}, Words, 1))

\* C28: a short yes/no answer on a "user:" line decides the classification
\* before every keyword tier: Unavailable for a no, Available for a yes,
\* whatever keywords the rest of the transcript contains.
C28_UserAnswerBeforeKeywords ==
    (Classified /\ UserLineAnswer # "none") => classification = UserLineAnswer

\* "user: No." next to "available" and no unavailable keyword is classified
\* Unavailable.
C28_Witness ==
    /\ Classified
    /\ UserLineAnswer = "unavailable"
    /\ KeywordIn(Words, {<<"available">>})
    /\ ~KeywordIn(Words, unavailable_keywords)
    /\ classification = "unavailable"

Unfinished == {j \in JobIds : pc[j] \notin {"none", "done"}}

\* C30: 0 <= active_jobs <= max_concurrent, and active_jobs is the number
\* of admitted jobs whose worker has not finished its final step: every
\* admitted job counts once and is discounted once, also when its handler
\* raises, and a finished worker never counts again.
C30_CounterMatchesWorkers ==
    /\ [](/\ 0 <= active_jobs /\ active_jobs <= max_concurrent
          /\ active_jobs = Cardinality(Unfinished))
    /\ [][\A j \in JobIds :
            /\ pc[j] = "done" => pc'[j] = "done"
            /\ pc[j] # "none" => pc'[j] # "none"]_vars

\* The counter is 0 again after two admitted jobs finished, one of them
\* with a handler that raised.
C30_Witness ==
    /\ active_jobs = 0
    /\ \E j, k \in DOMAIN jobs :
          /\ pc[j] = "done" /\ jobs[j].status = FAILED
          /\ pc[k] = "done" /\ jobs[k].status = COMPLETED

\* A job that is Queued and neither in the pending queue nor given to a
\* _process_job task: nothing will ever dispatch it.
Lost(j) ==
    /\ j \in DOMAIN jobs
    /\ jobs[j].status = QUEUED
    /\ ~InQueue(j)
    /\ pc[j] = "none"

\* C31: stop() loses no job: once stop() has returned, every job that is
\* still Queued is in the pending queue or has been handed to a worker
\* task, also when the dispatch loop was stopped in its wait for a slot.
C31_StopLosesNoJob ==
    worker_task = "cancelled" => \A j \in JobIds : ~Lost(j)

\* C32: the result reported for a Completed job is the result of that job's
\* own workflow run, also when several jobs of one property exist: the
\* job-status query never answers with another job's outcome.
C32_OwnResultReported ==
    (job_status.called /\ job_status.status = COMPLETED)
        => job_status.result = jobs[job_status.job_id].result

\* What the query does report for a Completed job: the outcome persisted
\* last for the job's property, by whichever job.
C32_LatestOfPropertyReported ==
    [][(job_status' # job_status /\ job_status'.status = COMPLETED)
         => job_status'.result =
                verification_logs[jobs[job_status'.job_id].property_id]]_vars
====
